---- MODULE Spec2Model ----
(***************************************************************************)
(* Farm simulation of src/App.tsx: the React component App, its state      *)
(* gameState, the handlers that update it, the interaction resolver        *)
(* checkInteractions, the debounced auto-save and the load at mount.       *)
(*                                                                         *)
(* React semantics used by Spec: every handler runs to completion, its     *)
(* state updaters are applied in the order they were queued, and the       *)
(* component re-renders (closures and effects are renewed) before the next *)
(* event is delivered.  A handler therefore reads its guards from a        *)
(* snapshot g that equals the committed state prev its updaters receive.   *)
(* The operators below keep g and prev apart, as the code does.            *)
(***************************************************************************)
EXTENDS Integers, Sequences, FiniteSets, TLC

VARIABLES gameState, selectedSeed, player, now, storage, saveTimer, lastOp

vars == <<gameState, selectedSeed, player, now, storage, saveTimer, lastOp>>

----------------------------------------------------------------------------
(* Bounds of the model *)

\* reading of Date.now() when the model starts
T0 == 100000
\* the clock advances in steps of TickMs
TickMs == 5000
\* number of clock steps explored
MaxTicks == 1
\* the player buys a kind of seed only while holding fewer than MaxSeeds of it
MaxSeeds == 3
\* experience is awarded up to level MaxLevel (SpecExp)
MaxLevel == 3

----------------------------------------------------------------------------
(* src/types.ts *)

CropType == {"CARROT", "TOMATO", "PUMPKIN"}
ProductType == {"PUMPKIN_PIE", "TOMATO_SOUP"}
GameView == {"FARM", "STORE", "KITCHEN"}

\* JavaScript null in a field that otherwise holds a string
Null == "null"
\* JavaScript null in the field plantedAt; a timestamp t is <<t>>
NullAt == << >>

----------------------------------------------------------------------------
(* constants *)

GRID_SIZE == 16
INITIAL_MONEY == 100
TILE_SIZE == 64

CROPS ==
  [CARROT  |-> [seedPrice |-> 10, sellPrice |-> 18,  growthTimeMs |-> 5000],
   TOMATO  |-> [seedPrice |-> 20, sellPrice |-> 45,  growthTimeMs |-> 10000],
   PUMPKIN |-> [seedPrice |-> 50, sellPrice |-> 120, growthTimeMs |-> 30000]]

PRODUCTS ==
  [PUMPKIN_PIE |-> [sellPrice |-> 300,
                    ingredients |-> << [type |-> "PUMPKIN", count |-> 2],
                                       [type |-> "CARROT", count |-> 1] >>],
   TOMATO_SOUP |-> [sellPrice |-> 150,
                    ingredients |-> << [type |-> "TOMATO", count |-> 3] >>]]

----------------------------------------------------------------------------
(* Helper functions and initial state *)

createInitialPlots ==
  [i \in 0..(GRID_SIZE - 1) |->
     [id |-> i, isLocked |-> FALSE, crop |-> Null, plantedAt |-> NullAt,
      isWithered |-> FALSE, isPlowed |-> FALSE]]

createInitialInventory ==
  [seeds    |-> [CARROT |-> 2, TOMATO |-> 0, PUMPKIN |-> 0],
   crops    |-> [CARROT |-> 0, TOMATO |-> 0, PUMPKIN |-> 0],
   products |-> [PUMPKIN_PIE |-> 0, TOMATO_SOUP |-> 0]]

InitialRPG == [luong |-> 5, levelMain |-> 1, expMain |-> 0, chests |-> << >>]

InitialGameState ==
  [money     |-> INITIAL_MONEY,
   plots     |-> createInitialPlots,
   inventory |-> createInitialInventory,
   view      |-> "FARM",
   playerRPG |-> InitialRPG]

InitialPlayer == [x |-> 400, y |-> 300]

----------------------------------------------------------------------------
(* EXP/Level *)

threshold(levelMain) == ((levelMain * (levelMain + 1)) \div 2) * 1000

RECURSIVE levelLoop(_, _)
levelLoop(levelMain, newExp) ==
  IF newExp >= threshold(levelMain)
    THEN levelLoop(levelMain + 1, newExp - threshold(levelMain))
    ELSE [levelMain |-> levelMain, expMain |-> newExp]

\* mutant of addExp: an if in place of the while, one level-up at most
addExpOnce(prev, amount) ==
  LET l == prev.playerRPG.levelMain
      e == prev.playerRPG.expMain + amount
  IN  [prev EXCEPT !.playerRPG =
         IF e >= threshold(l)
           THEN [@ EXCEPT !.levelMain = l + 1, !.expMain = e - threshold(l)]
           ELSE [@ EXCEPT !.expMain = e]]

\* the updater addExp passes to setGameState
addExp(prev, amount) ==
  LET r == levelLoop(prev.playerRPG.levelMain, prev.playerRPG.expMain + amount)
  IN  [prev EXCEPT !.playerRPG =
         [@ EXCEPT !.levelMain = r.levelMain, !.expMain = r.expMain]]

----------------------------------------------------------------------------
(* Plot handlers.  g is the rendered snapshot the handler closes over,     *)
(* prev the committed state its updater receives.                          *)

\* JavaScript !plot.plantedAt : null and 0 are falsy
falsyAt(at) == at = NullAt \/ at = <<0>>

\* mutant of handlePlantGuard: the seed count is not checked
handlePlantGuardNoSeedCheck(g, sel, plotIndex) ==
  /\ sel # Null
  /\ g.plots[plotIndex].isPlowed
  /\ g.plots[plotIndex].crop = Null

handlePlantGuard(g, sel, plotIndex) ==
  /\ sel # Null
  /\ g.plots[plotIndex].isPlowed
  /\ g.plots[plotIndex].crop = Null
  /\ ~(g.inventory.seeds[sel] <= 0)

\* mutant of plantUpdater: the seed is not taken from the inventory
plantUpdaterKeepsSeed(prev, plot, plotIndex, sel, t) ==
  [prev EXCEPT
     !.plots = [@ EXCEPT ![plotIndex] =
                  [plot EXCEPT !.crop = sel, !.plantedAt = <<t>>]]]

plantUpdater(prev, plot, plotIndex, sel, t) ==
  [prev EXCEPT
     !.plots = [@ EXCEPT ![plotIndex] =
                  [plot EXCEPT !.crop = sel, !.plantedAt = <<t>>]],
     !.inventory = [@ EXCEPT !.seeds = [@ EXCEPT ![sel] = @ - 1]]]

handlePlant(g, prev, sel, plotIndex, t) ==
  addExp(plantUpdater(prev, g.plots[plotIndex], plotIndex, sel, t), 5)

\* mutant of isReady: the elapsed time is not compared
isReadyAnyTime(plot, t) == ~falsyAt(plot.plantedAt)

\* mutant of isReady: half of the growth time is enough
isReadyAfterHalf(plot, t) ==
  /\ ~falsyAt(plot.plantedAt)
  /\ 2 * (t - plot.plantedAt[1]) >= CROPS[plot.crop].growthTimeMs

isReady(plot, t) ==
  /\ ~falsyAt(plot.plantedAt)
  /\ t - plot.plantedAt[1] >= CROPS[plot.crop].growthTimeMs

handleHarvestGuard(g, plotIndex, t) ==
  /\ ~(g.plots[plotIndex].crop = Null \/ falsyAt(g.plots[plotIndex].plantedAt))
  /\ isReady(g.plots[plotIndex], t)

\* mutant of harvestUpdater: plantedAt is not cleared
harvestUpdaterKeepsPlantedAt(prev, plot, plotIndex) ==
  [prev EXCEPT
     !.plots = [@ EXCEPT ![plotIndex] =
                  [plot EXCEPT !.crop = Null, !.isPlowed = FALSE]],
     !.inventory = [@ EXCEPT !.crops =
                      IF plot.crop # Null
                        THEN [@ EXCEPT ![plot.crop] = @ + 1]
                        ELSE @]]

\* mutant of harvestUpdater: isPlowed is not reset
harvestUpdaterKeepsPlowed(prev, plot, plotIndex) ==
  [prev EXCEPT
     !.plots = [@ EXCEPT ![plotIndex] =
                  [plot EXCEPT !.crop = Null, !.plantedAt = NullAt]],
     !.inventory = [@ EXCEPT !.crops =
                      IF plot.crop # Null
                        THEN [@ EXCEPT ![plot.crop] = @ + 1]
                        ELSE @]]

\* mutant of harvestUpdater: the crop is left in the plot
harvestUpdaterKeepsCrop(prev, plot, plotIndex) ==
  [prev EXCEPT
     !.plots = [@ EXCEPT ![plotIndex] =
                  [plot EXCEPT !.plantedAt = NullAt, !.isPlowed = FALSE]],
     !.inventory = [@ EXCEPT !.crops =
                      IF plot.crop # Null
                        THEN [@ EXCEPT ![plot.crop] = @ + 1]
                        ELSE @]]

harvestUpdater(prev, plot, plotIndex) ==
  [prev EXCEPT
     !.plots = [@ EXCEPT ![plotIndex] =
                  [plot EXCEPT !.crop = Null, !.plantedAt = NullAt,
                               !.isPlowed = FALSE]],
     !.inventory = [@ EXCEPT !.crops =
                      IF plot.crop # Null
                        THEN [@ EXCEPT ![plot.crop] = @ + 1]
                        ELSE @]]

handleHarvest(g, prev, plotIndex) ==
  addExp(harvestUpdater(prev, g.plots[plotIndex], plotIndex), 100)

handleSoilInteraction(prev, plotIndex) ==
  [prev EXCEPT !.plots = [@ EXCEPT ![plotIndex] =
                            [@ EXCEPT !.isPlowed = ~@]]]

\* the object prev as the updater of handlePlant leaves it: newInventory is
\* a shallow copy, so newInventory.seeds is prev.inventory.seeds and the
\* decrement is made in place
plantUpdaterPrev(prev, sel) ==
  [prev EXCEPT !.inventory = [@ EXCEPT !.seeds = [@ EXCEPT ![sel] = @ - 1]]]

\* the object prev as the updater of handleHarvest leaves it
harvestUpdaterPrev(prev, plot) ==
  [prev EXCEPT !.inventory = [@ EXCEPT !.crops =
                                IF plot.crop # Null
                                  THEN [@ EXCEPT ![plot.crop] = @ + 1]
                                  ELSE @]]

\* the growth the renderer draws, Math.min(1, elapsed / growthTimeMs), as
\* the fraction num / den
progress(plot, t) ==
  LET elapsed == t - plot.plantedAt[1]
      growthTimeMs == CROPS[plot.crop].growthTimeMs
  IN [num |-> IF elapsed >= growthTimeMs THEN growthTimeMs ELSE elapsed,
      den |-> growthTimeMs]

\* if (plot.crop && plot.plantedAt) : the renderer draws a crop
drawsCrop(plot) == plot.crop # Null /\ ~falsyAt(plot.plantedAt)

\* if (progress >= 1) : the renderer draws the crop as ripe
drawsRipe(plot, t) == progress(plot, t).num >= progress(plot, t).den

----------------------------------------------------------------------------
(* Interaction resolver *)

storeRect == [x |-> 450, y |-> 50, w |-> 200, h |-> 150]
storeCenter == [x |-> storeRect.x + storeRect.w \div 2,
                y |-> storeRect.y + storeRect.h \div 2]
plotsStartX == 3 * TILE_SIZE
plotsStartY == 4 * TILE_SIZE

\* mutant of nearStore: the comparison is reversed
nearStoreOutside(p) ==
  (p.x - storeCenter.x) * (p.x - storeCenter.x)
    + (p.y - storeCenter.y) * (p.y - storeCenter.y) > 150 * 150

\* Math.hypot(pX - cx, pY - cy) < 150, on integer coordinates
nearStore(p) ==
  (p.x - storeCenter.x) * (p.x - storeCenter.x)
    + (p.y - storeCenter.y) * (p.y - storeCenter.y) < 150 * 150

plotCol(p) == (p.x - plotsStartX) \div TILE_SIZE
plotRow(p) == (p.y - plotsStartY) \div TILE_SIZE
inGrid(p) == plotCol(p) >= 0 /\ plotCol(p) < 4 /\ plotRow(p) >= 0 /\ plotRow(p) < 4
plotAt(p) == plotRow(p) * 4 + plotCol(p)

\* mutant of plotOccupied: the occupant is not looked at
plotNeverOccupied(plot) == FALSE

\* if (plot.crop) : the plot under the player holds a crop
plotOccupied(plot) == plot.crop # Null

\* what checkInteractions(true, keyType) does: the operation it dispatches
\* (op), whether setGameState is called (called) and the state that
\* results (state); label is the text it passes to setInteractionLabel
checkInteractions(g, prev, sel, p, execute, keyType, t) ==
  LET none == [op |-> "key", idx |-> -1, kind |-> ""]
      idle(l) == [label |-> l, called |-> FALSE, state |-> prev, op |-> none]
  IN
  IF nearStore(p)
    THEN IF execute /\ keyType = "E"
           THEN [label |-> "ENTER_STORE", called |-> TRUE,
                 state |-> [prev EXCEPT !.view = "STORE"],
                 op |-> [op |-> "enterStore", idx |-> -1, kind |-> ""]]
           ELSE idle("ENTER_STORE")
  ELSE IF inGrid(p)
    THEN LET index == plotAt(p)
             plot == g.plots[index]
         IN
         IF plotOccupied(plot)
           THEN LET ready == isReady(plot, t)
                    l == IF ready THEN "HARVEST" ELSE "GROWING"
                    o == [op |-> IF keyType = "E" THEN "harvest" ELSE "till",
                          idx |-> index, kind |-> plot.crop]
                IN IF execute /\ keyType = "E" /\ ready
                          /\ handleHarvestGuard(g, index, t)
                     THEN [label |-> l, called |-> TRUE,
                           state |-> handleHarvest(g, prev, index), op |-> o]
                     ELSE [label |-> l, called |-> FALSE, state |-> prev,
                           op |-> IF execute THEN o ELSE none]
           ELSE LET l == IF ~plot.isPlowed THEN "TILL" ELSE "UNTILL_OR_PLANT"
                IN IF execute /\ keyType = "SPACE"
                     THEN [label |-> l, called |-> TRUE,
                           state |-> handleSoilInteraction(prev, index),
                           op |-> [op |-> "till", idx |-> index, kind |-> ""]]
                   ELSE IF execute /\ keyType = "E"
                     THEN LET o == [op |-> "plant", idx |-> index,
                                    kind |-> sel]
                          IN IF plot.isPlowed /\ handlePlantGuard(g, sel, index)
                               THEN [label |-> l, called |-> TRUE,
                                     state |-> handlePlant(g, prev, sel, index, t),
                                     op |-> o]
                               ELSE [label |-> l, called |-> FALSE,
                                     state |-> prev, op |-> o]
                   ELSE idle(l)
  ELSE idle(Null)

\* the label gameLoop leaves in interactionLabel: checkInteractions(false)
interactionLabel(g, sel, p, t) ==
  checkInteractions(g, g, sel, p, FALSE, "", t).label

----------------------------------------------------------------------------
(* Buy / sell / cook *)

\* mutant of buySeedGuard: the balance is compared with 0, not the price
buySeedGuardAnyBalance(g, type) == g.money >= 0

buySeedGuard(g, type) == g.money >= CROPS[type].seedPrice

buySeedUpdater(prev, type) ==
  [prev EXCEPT
     !.money = @ - CROPS[type].seedPrice,
     !.inventory = [@ EXCEPT !.seeds = [@ EXCEPT ![type] = @ + 1]]]

sellCropGuard(g, type) == g.inventory.crops[type] > 0

\* mutant of sellCropUpdater: the crop count is not decremented
sellCropUpdaterKeepsStock(prev, type) ==
  [prev EXCEPT !.money = @ + CROPS[type].sellPrice]

sellCropUpdater(prev, type) ==
  [prev EXCEPT
     !.money = @ + CROPS[type].sellPrice,
     !.inventory = [@ EXCEPT !.crops = [@ EXCEPT ![type] = @ - 1]]]

sellProductGuard(g, type) == g.inventory.products[type] > 0

sellProductUpdater(prev, type) ==
  [prev EXCEPT
     !.money = @ + PRODUCTS[type].sellPrice,
     !.inventory = [@ EXCEPT !.products = [@ EXCEPT ![type] = @ - 1]]]

\* mutant of canCook: some in place of every
canCookSome(g, type) ==
  \E i \in 1..Len(PRODUCTS[type].ingredients) :
     g.inventory.crops[PRODUCTS[type].ingredients[i].type]
        >= PRODUCTS[type].ingredients[i].count

\* recipe.ingredients.every(ing => crops[ing.type] >= ing.count)
canCook(g, type) ==
  \A i \in 1..Len(PRODUCTS[type].ingredients) :
     g.inventory.crops[PRODUCTS[type].ingredients[i].type]
        >= PRODUCTS[type].ingredients[i].count

\* recipe.ingredients.forEach(ing => crops[ing.type] -= ing.count)
RECURSIVE consume(_, _, _)
consume(crops, ingredients, i) ==
  IF i > Len(ingredients)
    THEN crops
    ELSE consume([crops EXCEPT ![ingredients[i].type] = @ - ingredients[i].count],
                 ingredients, i + 1)

cookUpdater(prev, type) ==
  [prev EXCEPT
     !.inventory = [@ EXCEPT
        !.crops = consume(@, PRODUCTS[type].ingredients, 1),
        !.products = [@ EXCEPT ![type] = @ + 1]]]

\* the object prev as the updater of cookProduct leaves it: the crops and
\* the products of prev.inventory are changed in place
cookUpdaterPrev(prev, type) ==
  [prev EXCEPT
     !.inventory = [@ EXCEPT
        !.crops = consume(@, PRODUCTS[type].ingredients, 1),
        !.products = [@ EXCEPT ![type] = @ + 1]]]

cookProduct(prev, type) == addExp(cookUpdater(prev, type), 200)

----------------------------------------------------------------------------
(* Save and load.  storage is << >> when localStorage holds no item under  *)
(* SAVE_KEY and <<text>> otherwise.  A text is [json, members]: json names *)
(* what the text is ("object", "array", "number", "null" for those JSON    *)
(* texts, "invalid" for a text that is not JSON, "empty" for the empty     *)
(* string) and members lists the <<key, value>> members of an object in    *)
(* insertion order, a value being <<v>>, or << >> for the JSON null.       *)

\* mutant of stringify: the member playerRPG is left out
stringifyWithoutRPG(gs) ==
  [json |-> "object",
   members |-> << <<"money", <<gs.money>> >>, <<"plots", <<gs.plots>> >>,
                  <<"inventory", <<gs.inventory>> >>, <<"view", <<gs.view>> >> >>]

\* JSON.stringify(gameState)
stringify(gs) ==
  [json |-> "object",
   members |-> << <<"money", <<gs.money>> >>, <<"plots", <<gs.plots>> >>,
                  <<"inventory", <<gs.inventory>> >>, <<"view", <<gs.view>> >>,
                  <<"playerRPG", <<gs.playerRPG>> >> >>]

\* if (savedData) : null and the empty string are falsy
truthy(savedData) == savedData # << >> /\ savedData[1].json # "empty"

\* JSON.parse(savedData) throws a SyntaxError
parseThrows(text) == text.json = "invalid"

\* parsed.money throws a TypeError: parsed is null
memberThrows(text) == text.json = "null"

\* parsed[key] : <<v>>, or << >> when the member is missing (undefined) or
\* null; a number and an array have no such member
member(parsed, key) ==
  IF \E i \in 1..Len(parsed.members) : parsed.members[i][1] = key
    THEN parsed.members[CHOOSE i \in 1..Len(parsed.members) :
                           parsed.members[i][1] = key][2]
    ELSE << >>

\* a ?? b
nullish(a, b) == IF a = << >> THEN b ELSE a[1]

\* the state the component is left with when the initializer throws
Crashed == [crashed |-> TRUE]

\* mutant of loadGame: no try / catch around the read
loadGameUncaught(savedData) ==
  IF truthy(savedData)
    THEN LET parsed == savedData[1]
         IN IF parseThrows(parsed) \/ memberThrows(parsed)
              THEN Crashed
              ELSE
            [money     |-> nullish(member(parsed, "money"), INITIAL_MONEY),
             plots     |-> nullish(member(parsed, "plots"), createInitialPlots),
             inventory |-> nullish(member(parsed, "inventory"),
                                   createInitialInventory),
             view      |-> "FARM",
             playerRPG |-> nullish(member(parsed, "playerRPG"), InitialRPG)]
    ELSE InitialGameState

\* mutant of loadGame: the view is read from the snapshot
loadGameRestoresView(savedData) ==
  IF truthy(savedData)
    THEN LET parsed == savedData[1]
         IN IF parseThrows(parsed) \/ memberThrows(parsed)
              THEN InitialGameState
              ELSE
            [money     |-> nullish(member(parsed, "money"), INITIAL_MONEY),
             plots     |-> nullish(member(parsed, "plots"), createInitialPlots),
             inventory |-> nullish(member(parsed, "inventory"),
                                   createInitialInventory),
             view      |-> nullish(member(parsed, "view"), "FARM"),
             playerRPG |-> nullish(member(parsed, "playerRPG"), InitialRPG)]
    ELSE InitialGameState

\* the useState initializer, given what localStorage.getItem returned
loadGame(savedData) ==
  IF truthy(savedData)
    THEN LET parsed == savedData[1]
         IN IF parseThrows(parsed) \/ memberThrows(parsed)
              THEN InitialGameState
              ELSE
            [money     |-> nullish(member(parsed, "money"), INITIAL_MONEY),
             plots     |-> nullish(member(parsed, "plots"), createInitialPlots),
             inventory |-> nullish(member(parsed, "inventory"),
                                   createInitialInventory),
             view      |-> "FARM",
             playerRPG |-> nullish(member(parsed, "playerRPG"), InitialRPG)]
    ELSE InitialGameState

\* the useState initializer; getItemThrows: localStorage.getItem throws
\* (storage is blocked), which the catch turns into the default state
initializer(store, getItemThrows) ==
  IF getItemThrows THEN InitialGameState ELSE loadGame(store)

\* mutant of clearTimeout: the effect returns no cleanup
clearTimeoutNoop(timers, old) == timers

\* clearTimeout(t), t the timer that was set for the state old
clearTimeout(timers, old) == timers \ {old}

\* mutant of autoSaveEffect: a pending timer is kept and no new one is set
autoSaveEffectKeepsPending(timers, old, next) ==
  IF timers # {} THEN timers ELSE {next}

\* the auto-save effect runs after a render that changed gameState: the
\* cleanup of the effect of the previous render, then setTimeout(..., 500)
autoSaveEffect(timers, old, next) == clearTimeout(timers, old) \cup {next}

------------------------------------------------------------
(* State machine *)

\* positions the player walks to: plot 3 (where the player starts), plot 0
\* and the store
WalkTargets ==
  { [x |-> 400, y |-> 300], [x |-> 200, y |-> 260], [x |-> 548, y |-> 124] }

\* where the player stands after entering the store
StorePosition == [x |-> 548, y |-> 124]

\* the kinds of seed the player buys and selects in Spec
PlayKinds == {"CARROT", "TOMATO"}

\* lastOp: the input delivered by the last step (a history variable):
\* the operation asked for, the plot (or amount) and the kind it names
Op(o, i, k) == [op |-> o, idx |-> i, kind |-> k]

Init ==
  /\ gameState = loadGame(<< >>)
  /\ selectedSeed = "CARROT"
  /\ player = InitialPlayer
  /\ now = T0
  /\ storage = << >>
  /\ saveTimer = {gameState}
  /\ lastOp = Op("init", -1, "")

\* setGameState was called: the component renders next and the auto-save
\* effect replaces the pending timer by one that holds the new state
Commit(next, called, o) ==
  /\ gameState' = next
  /\ saveTimer' = IF called
                    THEN autoSaveEffect(saveTimer, gameState, next)
                    ELSE saveTimer
  /\ lastOp' = o

\* keydown of E or SPACE (handleAction)
KeyDown(keyType) ==
  /\ IF gameState.view # "FARM"
       THEN Commit(gameState, FALSE, Op("key", -1, ""))
       ELSE LET r == checkInteractions(gameState, gameState, selectedSeed,
                                       player, TRUE, keyType, now)
            IN Commit(r.state, r.called, r.op)
  /\ UNCHANGED <<selectedSeed, player, now, storage>>

KeyE == KeyDown("E")

KeySpace == KeyDown("SPACE")

\* frames of gameLoop that move the player; the loop runs in the FARM view
Walk ==
  /\ gameState.view = "FARM"
  /\ \E p \in WalkTargets : p # player /\ player' = p
  /\ lastOp' = Op("walk", -1, "")
  /\ UNCHANGED <<gameState, selectedSeed, now, storage, saveTimer>>

\* the seed buttons, rendered in the FARM view
SelectSeed ==
  /\ gameState.view = "FARM"
  /\ \E type \in PlayKinds : selectedSeed' = type
  /\ lastOp' = Op("select", -1, "")
  /\ UNCHANGED <<gameState, player, now, storage, saveTimer>>

\* the store's back button
BackToFarm ==
  /\ gameState.view = "STORE"
  /\ Commit([gameState EXCEPT !.view = "FARM"], TRUE, Op("back", -1, ""))
  /\ UNCHANGED <<selectedSeed, player, now, storage>>

\* buySeed(type), from the store's buy buttons
BuySeedOf(kinds) ==
  /\ gameState.view = "STORE"
  /\ \E type \in kinds :
       /\ gameState.inventory.seeds[type] < MaxSeeds
       /\ IF buySeedGuard(gameState, type)
            THEN Commit(buySeedUpdater(gameState, type), TRUE,
                        Op("buySeed", -1, type))
            ELSE Commit(gameState, FALSE, Op("buySeed", -1, type))
  /\ UNCHANGED <<selectedSeed, player, now, storage>>

BuySeed == BuySeedOf(PlayKinds)

\* sellCrop(type), from the store's sell buttons
SellCrop ==
  /\ gameState.view = "STORE"
  /\ \E type \in CropType :
       IF sellCropGuard(gameState, type)
         THEN Commit(sellCropUpdater(gameState, type), TRUE,
                     Op("sellCrop", -1, type))
         ELSE Commit(gameState, FALSE, Op("sellCrop", -1, type))
  /\ UNCHANGED <<selectedSeed, player, now, storage>>

\* sellProduct(type), from the store's sell buttons
SellProduct ==
  /\ gameState.view = "STORE"
  /\ \E type \in ProductType :
       IF sellProductGuard(gameState, type)
         THEN Commit(sellProductUpdater(gameState, type), TRUE,
                     Op("sellProduct", -1, type))
         ELSE Commit(gameState, FALSE, Op("sellProduct", -1, type))
  /\ UNCHANGED <<selectedSeed, player, now, storage>>

\* cookProduct(type); no element of src/App.tsx calls it, so it is
\* modelled as callable in any view
Cook ==
  /\ \E type \in ProductType :
       IF canCook(gameState, type)
         THEN Commit(cookProduct(gameState, type), TRUE, Op("cook", -1, type))
         ELSE Commit(gameState, FALSE, Op("cook", -1, type))
  /\ UNCHANGED <<selectedSeed, player, now, storage>>

\* Date.now() advances
Tick ==
  /\ now + TickMs <= T0 + MaxTicks * TickMs
  /\ now' = now + TickMs
  /\ lastOp' = Op("tick", -1, "")
  /\ UNCHANGED <<gameState, selectedSeed, player, storage, saveTimer>>

\* a pending auto-save timer fires; setItem may throw, which is caught and
\* logged
SaveFire ==
  /\ \E t \in saveTimer :
       /\ \E ok \in BOOLEAN :
            /\ storage' = IF ok THEN <<stringify(t)>> ELSE storage
            /\ lastOp' = Op("save", -1, IF ok THEN "" ELSE "throws")
       /\ saveTimer' = saveTimer \ {t}
  /\ UNCHANGED <<gameState, selectedSeed, player, now>>

\* the page is reloaded: the timers of the old page are gone, the component
\* mounts again and runs the useState initializers and the auto-save effect
Reload ==
  /\ \E getItemThrows \in BOOLEAN :
       /\ gameState' = initializer(storage, getItemThrows)
       /\ lastOp' = Op("load", -1, IF getItemThrows THEN "throws" ELSE "")
  /\ selectedSeed' = "CARROT"
  /\ player' = InitialPlayer
  /\ saveTimer' = {gameState'}
  /\ UNCHANGED <<now, storage>>

\* one session of play, from the first mount of the component
Next ==
  \/ KeyE
  \/ KeySpace
  \/ Walk
  \/ SelectSeed
  \/ BackToFarm
  \/ BuySeed
  \/ SellCrop
  \/ SellProduct
  \/ Cook
  \/ Tick

Spec == Init /\ [][Next]_vars

----------------------------------------------------------------------------
(* SpecSave: play with carrots at one clock reading, the auto-save timer    *)
(* and page reloads                                                        *)

NextSave ==
  \/ KeyE
  \/ KeySpace
  \/ Walk
  \/ BackToFarm
  \/ BuySeedOf({"CARROT"})
  \/ SaveFire
  \/ Reload

SpecSave == Init /\ [][NextSave]_vars

\* SpecSave with the timer: a timer that stays pending does fire
SpecSaveFair == SpecSave /\ WF_vars(SaveFire)

----------------------------------------------------------------------------
(* SpecLedger: the store and the kitchen, entered with the stock of a game *)
(* in progress.  The counts and balances below are ones long play reaches: *)
(* crops are harvested one at a time, and money moves by 10, 20, 50        *)
(* (seeds) and 18, 45, 120 (crops).                                        *)

LedgerMoney == {0, 50}
LedgerCarrots == {1, 5}
LedgerTomatoes == {0, 3}
LedgerPumpkins == {1, 2}
LedgerProducts == {0, 1}
LedgerExp == {0, 900}

InitLedger ==
  /\ \E m \in LedgerMoney, c \in LedgerCarrots, t \in LedgerTomatoes,
        p \in LedgerPumpkins, q \in LedgerProducts, e \in LedgerExp :
       gameState =
         [InitialGameState EXCEPT
            !.money = m,
            !.view = "STORE",
            !.inventory = [@ EXCEPT
               !.crops = [CARROT |-> c, TOMATO |-> t, PUMPKIN |-> p],
               !.products = [PUMPKIN_PIE |-> q, TOMATO_SOUP |-> 0]],
            !.playerRPG = [@ EXCEPT !.expMain = e]]
  /\ selectedSeed = "CARROT"
  /\ player = StorePosition
  /\ now = T0
  /\ storage = << >>
  /\ saveTimer = {gameState}
  /\ lastOp = Op("init", -1, "")

BuyPumpkinSeed == BuySeedOf({"PUMPKIN"})

NextLedger ==
  \/ BuyPumpkinSeed
  \/ SellCrop
  \/ SellProduct
  \/ Cook

SpecLedger == InitLedger /\ [][NextLedger]_vars

----------------------------------------------------------------------------
(* SpecExp: addExp applied to every level and experience below MaxLevel   *)

AwardAmounts == {0, 5, 100, 200, 250, 1000, 3050}

InitExp ==
  /\ \E l \in 1..MaxLevel :
       \E e \in {x \in 0..(threshold(l) - 1) : x % 50 = 0} :
          gameState = [InitialGameState EXCEPT
                         !.playerRPG = [@ EXCEPT !.levelMain = l, !.expMain = e]]
  /\ selectedSeed = "CARROT"
  /\ player = InitialPlayer
  /\ now = T0
  /\ storage = << >>
  /\ saveTimer = {gameState}
  /\ lastOp = Op("init", -1, "")

\* addExp(amount)
AwardExp ==
  /\ gameState.playerRPG.levelMain <= MaxLevel
  /\ \E a \in AwardAmounts :
       Commit(addExp(gameState, a), TRUE, Op("award", a, ""))
  /\ UNCHANGED <<selectedSeed, player, now, storage>>

NextExp == AwardExp

SpecExp == InitExp /\ [][NextExp]_vars

----------------------------------------------------------------------------
(* SpecClock: play with the seeds of the initial inventory while the       *)
(* system clock, which Date.now() reads, is also set back                  *)

\* the system time is set back (by the user or a time synchronisation)
ClockBack ==
  /\ now > T0
  /\ now' = now - TickMs
  /\ lastOp' = Op("clockBack", -1, "")
  /\ UNCHANGED <<gameState, selectedSeed, player, storage, saveTimer>>

NextClock ==
  \/ KeyE
  \/ KeySpace
  \/ Walk
  \/ BackToFarm
  \/ Tick
  \/ ClockBack

SpecClock == Init /\ [][NextClock]_vars

----------------------------------------------------------------------------
(* SpecStale: two inputs are delivered before the component renders again. *)
(* Both handlers close over the gameState of the last render (g), and      *)
(* React applies the updaters they queue in order, each to the state the   *)
(* one before it returned.                                                 *)

\* buySeed(type) twice against one rendered state
BuyTwice ==
  /\ gameState.view = "STORE"
  /\ \E type \in {"PUMPKIN"} :
       /\ gameState.inventory.seeds[type] + 1 < MaxSeeds
       /\ LET g == gameState
              first == IF buySeedGuard(g, type)
                         THEN buySeedUpdater(g, type) ELSE g
              second == IF buySeedGuard(g, type)
                          THEN buySeedUpdater(first, type) ELSE first
          IN Commit(second, buySeedGuard(g, type), Op("buyTwice", -1, type))
  /\ UNCHANGED <<selectedSeed, player, now, storage>>

\* two key presses against one rendered state: SPACE then E, or E then E
\* on a plot that holds a crop
KeysTwice ==
  /\ gameState.view = "FARM"
  /\ \E keys \in {<<"SPACE", "E">>, <<"E", "E">>} :
       LET g == gameState
           first == checkInteractions(g, g, selectedSeed, player, TRUE,
                                      keys[1], now)
           second == checkInteractions(g, first.state, selectedSeed, player,
                                       TRUE, keys[2], now)
       IN /\ keys[1] = "E" => first.op.op = "harvest"
          /\ Commit(second.state, first.called \/ second.called,
                    Op("keysTwice", -1, keys[1]))
  /\ UNCHANGED <<selectedSeed, player, now, storage>>

NextStale ==
  \/ KeyE
  \/ KeySpace
  \/ Walk
  \/ BackToFarm
  \/ BuyPumpkinSeed
  \/ Tick
  \/ BuyTwice
  \/ KeysTwice

SpecStale == Init /\ [][NextStale]_vars

----------------------------------------------------------------------------
(* SpecLoad: the page is loaded over an item that this or another version  *)
(* of the program, or anything else with access to localStorage, has left  *)
(* under SAVE_KEY                                                          *)

\* plots as the program saves them: plot 0 holds a carrot, plot 3 is tilled
SavedPlots ==
  [createInitialPlots EXCEPT
     ![0] = [@ EXCEPT !.isPlowed = TRUE, !.crop = "CARROT", !.plantedAt = <<T0>>],
     ![3] = [@ EXCEPT !.isPlowed = TRUE]]

\* an inventory as the program saves it
SavedInventory ==
  [seeds    |-> [CARROT |-> 1, TOMATO |-> 1, PUMPKIN |-> 0],
   crops    |-> [CARROT |-> 2, TOMATO |-> 0, PUMPKIN |-> 0],
   products |-> [PUMPKIN_PIE |-> 0, TOMATO_SOUP |-> 0]]

\* an inventory whose seeds and crops lack the key PUMPKIN
InventoryMissingKey ==
  [seeds    |-> [CARROT |-> 1, TOMATO |-> 1],
   crops    |-> [CARROT |-> 2, TOMATO |-> 0],
   products |-> [PUMPKIN_PIE |-> 0, TOMATO_SOUP |-> 0]]

SavedRPG == [luong |-> 5, levelMain |-> 2, expMain |-> 150, chests |-> << >>]

\* what a stored object holds under each key: nothing (the key is absent),
\* null, a value the program saves, or a value it never saves (a negative
\* balance, an empty array of plots, an inventory without a crop key)
StoredMoney == { << >>, <<"money", << >> >>, <<"money", <<90>> >>,
                 <<"money", <<-5>> >> }
StoredPlots == { << >>, <<"plots", << >> >>, <<"plots", <<SavedPlots>> >>,
                 <<"plots", << << >> >> >> }
StoredInventory == { << >>, <<"inventory", << >> >>,
                     <<"inventory", <<SavedInventory>> >>,
                     <<"inventory", <<InventoryMissingKey>> >> }
StoredRPG == { << >>, <<"playerRPG", <<SavedRPG>> >> }

\* the members of an object, the absent ones left out
Members(m, p, i, r) ==
  (IF m = << >> THEN << >> ELSE <<m>>) \o (IF p = << >> THEN << >> ELSE <<p>>)
    \o (IF i = << >> THEN << >> ELSE <<i>>)
    \o (IF r = << >> THEN << >> ELSE <<r>>)

\* the texts found under SAVE_KEY
StoredTexts ==
  { [json |-> "object", members |-> Members(m, p, i, r)] :
      m \in StoredMoney, p \in StoredPlots, i \in StoredInventory,
      r \in StoredRPG }
  \cup { [json |-> j, members |-> << >>] :
           j \in {"invalid", "null", "number", "array", "empty"} }

InitLoad ==
  /\ storage \in { << >> } \cup { <<text>> : text \in StoredTexts }
  /\ gameState = InitialGameState
  /\ selectedSeed = "CARROT"
  /\ player = InitialPlayer
  /\ now = T0
  /\ saveTimer = {gameState}
  /\ lastOp = Op("init", -1, "")

NextLoad == Reload

SpecLoad == InitLoad /\ [][NextLoad]_vars

----------------------------------------------------------------------------
(* Properties *)

\* experience needed to leave level l, as the specification states it
Required(l) == (l * (l + 1) * 1000) \div 2

\* the sum of Required(i) for i in a..(b - 1)
RECURSIVE SumRequired(_, _)
SumRequired(a, b) == IF a >= b THEN 0 ELSE Required(a) + SumRequired(a + 1, b)

\* all the experience ever awarded to reach rpg
TotalExp(rpg) == rpg.expMain + SumRequired(1, rpg.levelMain)

\* the plot an input names, before and after the step
PlotBefore == gameState.plots[lastOp'.idx]
PlotAfter == gameState'.plots[lastOp'.idx]

\* C1: in every reachable state the money and every seed, crop and product
\* count are at least 0.
C1_NonNegative ==
  /\ gameState.money >= 0
  /\ \A k \in CropType : /\ gameState.inventory.seeds[k] >= 0
                         /\ gameState.inventory.crops[k] >= 0
  /\ \A q \in ProductType : gameState.inventory.products[q] >= 0

\* C1 witness: a purchase was asked for and the balance is below the price
C1_Witness ==
  /\ lastOp.op = "buySeed"
  /\ gameState.money < CROPS[lastOp.kind].seedPrice

\* C2: for every plot, crop is null exactly when plantedAt is null.
C2_CropIffPlantedAt ==
  \A i \in DOMAIN gameState.plots :
     (gameState.plots[i].crop = Null) <=> (gameState.plots[i].plantedAt = NullAt)

\* C2 witness: a plot was just harvested while another plot holds a crop
C2_Witness ==
  /\ lastOp.op = "harvest"
  /\ gameState.plots[lastOp.idx].crop = Null
  /\ \E j \in DOMAIN gameState.plots : gameState.plots[j].crop # Null

\* C3: a cook of a product for which some ingredient of the recipe is short
\* leaves every crop count, every product count and the level and
\* experience as they were.
C3_CookAllOrNothing ==
  [][(/\ lastOp'.op = "cook"
      /\ \E i \in 1..Len(PRODUCTS[lastOp'.kind].ingredients) :
            gameState.inventory.crops[PRODUCTS[lastOp'.kind].ingredients[i].type]
               < PRODUCTS[lastOp'.kind].ingredients[i].count)
     => /\ gameState'.inventory.crops = gameState.inventory.crops
        /\ gameState'.inventory.products = gameState.inventory.products
        /\ gameState'.playerRPG = gameState.playerRPG]_vars

\* C3 witness: PUMPKIN_PIE was asked for with 1 pumpkin and 5 carrots
C3_Witness ==
  /\ lastOp = Op("cook", -1, "PUMPKIN_PIE")
  /\ gameState.inventory.crops["PUMPKIN"] = 1
  /\ gameState.inventory.crops["CARROT"] = 5

\* C4: a harvest input on a plot that is empty, or whose crop has grown for
\* less than its growth time, changes nothing of the aggregate.
C4_HarvestOnlyWhenGrown ==
  [][(/\ lastOp'.op = "harvest"
      /\ \/ PlotBefore.crop = Null
         \/ PlotBefore.plantedAt = NullAt
         \/ now - PlotBefore.plantedAt[1] < CROPS[PlotBefore.crop].growthTimeMs)
     => gameState' = gameState]_vars

\* C4 witness: a harvest was asked of a crop part of the way through its growth
C4_Witness ==
  /\ lastOp.op = "harvest"
  /\ gameState.plots[lastOp.idx].crop # Null
  /\ now - gameState.plots[lastOp.idx].plantedAt[1] > 0
  /\ now - gameState.plots[lastOp.idx].plantedAt[1]
       < CROPS[gameState.plots[lastOp.idx].crop].growthTimeMs

\* C5: a plant input with kind k on a plot changes the state exactly when
\* the plot is tilled and empty and at least one seed of k is held; then the
\* plot holds k planted at the current time, one seed of k is gone and 5
\* experience is awarded; otherwise (also with no kind selected) the
\* aggregate is unchanged.
C5_Plant ==
  [][lastOp'.op = "plant"
     => LET k == lastOp'.kind
        IN IF /\ k # Null
              /\ PlotBefore.isPlowed
              /\ PlotBefore.crop = Null
              /\ gameState.inventory.seeds[k] >= 1
             THEN /\ PlotAfter.crop = k
                  /\ PlotAfter.plantedAt = <<now>>
                  /\ gameState'.inventory.seeds[k]
                       = gameState.inventory.seeds[k] - 1
                  /\ TotalExp(gameState'.playerRPG)
                       = TotalExp(gameState.playerRPG) + 5
             ELSE gameState' = gameState]_vars

\* C5 witness: a seed was just planted
C5_Witness ==
  /\ lastOp.op = "plant"
  /\ gameState.plots[lastOp.idx].crop = lastOp.kind
  /\ gameState.plots[lastOp.idx].plantedAt = <<now>>

\* C6: a harvest input on a plot whose crop k has grown for its growth time
\* adds exactly 1 to the crop count of k, empties the plot (crop and
\* plantedAt null, isPlowed false) and awards exactly 100 experience; no
\* other plot, no other count and not the money change.
C6_HarvestEffect ==
  [][(/\ lastOp'.op = "harvest"
      /\ PlotBefore.crop # Null
      /\ PlotBefore.plantedAt # NullAt
      /\ now - PlotBefore.plantedAt[1] >= CROPS[PlotBefore.crop].growthTimeMs)
     => LET k == PlotBefore.crop
        IN /\ gameState'.inventory.crops[k] = gameState.inventory.crops[k] + 1
           /\ \A j \in CropType \ {k} :
                 gameState'.inventory.crops[j] = gameState.inventory.crops[j]
           /\ gameState'.inventory.seeds = gameState.inventory.seeds
           /\ gameState'.inventory.products = gameState.inventory.products
           /\ PlotAfter.crop = Null
           /\ PlotAfter.plantedAt = NullAt
           /\ PlotAfter.isPlowed = FALSE
           /\ \A j \in DOMAIN gameState.plots \ {lastOp'.idx} :
                 gameState'.plots[j] = gameState.plots[j]
           /\ gameState'.money = gameState.money
           /\ TotalExp(gameState'.playerRPG)
                = TotalExp(gameState.playerRPG) + 100]_vars

\* C6 witness: a grown crop was just harvested into the inventory
C6_Witness ==
  /\ lastOp.op = "harvest"
  /\ gameState.plots[lastOp.idx].crop = Null
  /\ gameState.inventory.crops[lastOp.kind] >= 1
  /\ gameState.playerRPG.expMain >= 100

\* C7: a till input flips isPlowed of the plot, and nothing else, when the
\* plot holds no crop; when the plot holds a crop it changes nothing.
C7_Till ==
  [][lastOp'.op = "till"
     => IF PlotBefore.crop = Null
          THEN /\ PlotAfter.isPlowed = ~PlotBefore.isPlowed
               /\ PlotAfter.crop = Null
               /\ PlotAfter.plantedAt = NullAt
               /\ PlotAfter.id = PlotBefore.id
               /\ \A j \in DOMAIN gameState.plots \ {lastOp'.idx} :
                     gameState'.plots[j] = gameState.plots[j]
               /\ gameState'.money = gameState.money
               /\ gameState'.inventory = gameState.inventory
               /\ gameState'.view = gameState.view
               /\ gameState'.playerRPG = gameState.playerRPG
          ELSE gameState' = gameState]_vars

\* C7 witness: a till was asked of a plot that holds a crop
C7_Witness ==
  /\ lastOp.op = "till"
  /\ gameState.plots[lastOp.idx].crop # Null
  /\ gameState.plots[lastOp.idx].isPlowed

\* what a buy or a sale leaves alone
LedgerFrame ==
  /\ gameState'.plots = gameState.plots
  /\ gameState'.playerRPG = gameState.playerRPG
  /\ gameState'.view = gameState.view

\* C8: buySeed(k) debits the seed price and adds one seed of k when the
\* money covers the price, and changes nothing otherwise; sellCrop(k) and
\* sellProduct(p) credit the sell price and remove one unit when the count
\* is at least 1, and change nothing otherwise; plots, progression, view
\* and every other count stay as they were.
C8_LedgerAtomic ==
  [][/\ lastOp'.op = "buySeed"
        => LET k == lastOp'.kind
           IN IF gameState.money >= CROPS[k].seedPrice
                THEN /\ gameState'.money = gameState.money - CROPS[k].seedPrice
                     /\ gameState'.inventory.seeds[k]
                          = gameState.inventory.seeds[k] + 1
                     /\ \A j \in CropType \ {k} :
                           gameState'.inventory.seeds[j]
                             = gameState.inventory.seeds[j]
                     /\ gameState'.inventory.crops = gameState.inventory.crops
                     /\ gameState'.inventory.products
                          = gameState.inventory.products
                     /\ LedgerFrame
                ELSE gameState' = gameState
     /\ lastOp'.op = "sellCrop"
        => LET k == lastOp'.kind
           IN IF gameState.inventory.crops[k] >= 1
                THEN /\ gameState'.money = gameState.money + CROPS[k].sellPrice
                     /\ gameState'.inventory.crops[k]
                          = gameState.inventory.crops[k] - 1
                     /\ \A j \in CropType \ {k} :
                           gameState'.inventory.crops[j]
                             = gameState.inventory.crops[j]
                     /\ gameState'.inventory.seeds = gameState.inventory.seeds
                     /\ gameState'.inventory.products
                          = gameState.inventory.products
                     /\ LedgerFrame
                ELSE gameState' = gameState
     /\ lastOp'.op = "sellProduct"
        => LET q == lastOp'.kind
           IN IF gameState.inventory.products[q] >= 1
                THEN /\ gameState'.money
                          = gameState.money + PRODUCTS[q].sellPrice
                     /\ gameState'.inventory.products[q]
                          = gameState.inventory.products[q] - 1
                     /\ \A j \in ProductType \ {q} :
                           gameState'.inventory.products[j]
                             = gameState.inventory.products[j]
                     /\ gameState'.inventory.seeds = gameState.inventory.seeds
                     /\ gameState'.inventory.crops = gameState.inventory.crops
                     /\ LedgerFrame
                ELSE gameState' = gameState]_vars

\* C8 witness: three tomatoes were cooked into a soup and the soup was sold
\* (a balance of 50 plus the price of the soup, no crop sold)
C8_Witness ==
  /\ lastOp = Op("sellProduct", -1, "TOMATO_SOUP")
  /\ gameState.inventory.products["TOMATO_SOUP"] = 0
  /\ gameState.inventory.crops = [CARROT |-> 5, TOMATO |-> 0, PUMPKIN |-> 2]
  /\ gameState.money = 50 + PRODUCTS["TOMATO_SOUP"].sellPrice

\* C9: awarding a >= 0 to (level l, experience e below Required(l)) gives
\* (l2, e2) with l2 >= l, 0 <= e2 < Required(l2) and
\* e + a = e2 + Required(l) + ... + Required(l2 - 1); level 1 with 900
\* experience and an award of 250 gives level 2 with 150.
C9_AddExp ==
  [][lastOp'.op = "award"
     => LET l == gameState.playerRPG.levelMain
            e == gameState.playerRPG.expMain
            a == lastOp'.idx
            l2 == gameState'.playerRPG.levelMain
            e2 == gameState'.playerRPG.expMain
        IN /\ l2 >= l
           /\ e2 >= 0
           /\ e2 < Required(l2)
           /\ e + a = e2 + SumRequired(l, l2)
           /\ (l = 1 /\ e = 900 /\ a = 250) => (l2 = 2 /\ e2 = 150)]_vars

\* C9 witness: one award of 3050 took level 1 to level 3
C9_Witness ==
  /\ lastOp = Op("award", 3050, "")
  /\ gameState.playerRPG.levelMain = 3
  /\ gameState.playerRPG.expMain = 0

\* what the component holds after gs is saved and the page is loaded
RoundTrip(gs) == loadGame(<<stringify(gs)>>)

\* C10 as claimed: saving any reachable aggregate and loading the stored
\* snapshot gives back the same aggregate, field for field, the view
\* included.
C10_RoundTripIdentical == RoundTrip(gameState) = gameState

\* C10 as amended: saving any reachable aggregate and loading the stored
\* snapshot gives back the same money, plots, inventory and progression;
\* the view is FARM after the load, whatever view was saved.
C10_RoundTripButView ==
  /\ RoundTrip(gameState).money = gameState.money
  /\ RoundTrip(gameState).plots = gameState.plots
  /\ RoundTrip(gameState).inventory = gameState.inventory
  /\ RoundTrip(gameState).playerRPG = gameState.playerRPG
  /\ RoundTrip(gameState).view = "FARM"
  /\ DOMAIN RoundTrip(gameState) = DOMAIN gameState

\* C10 witness: the page was loaded from a snapshot saved in the STORE view
\* after a purchase and a planting, and holds what the snapshot holds
C10_Witness ==
  /\ lastOp = Op("load", -1, "")
  /\ storage # << >>
  /\ member(storage[1], "view") = <<"STORE">>
  /\ member(storage[1], "money") = <<gameState.money>>
  /\ gameState.money < INITIAL_MONEY
  /\ \E i \in DOMAIN gameState.plots : gameState.plots[i].crop # Null
  /\ gameState.view = "FARM"

\* the values the program keeps in each field
WellFormedMoney(m) == m >= 0
WellFormedPlots(p) == DOMAIN p = 0..(GRID_SIZE - 1)
WellFormedInventory(i) ==
  /\ DOMAIN i.seeds = CropType
  /\ DOMAIN i.crops = CropType
  /\ DOMAIN i.products = ProductType

\* C11: after a load of a stored object, each of money, plots, inventory
\* and progression holds its initial value when the member is absent, null
\* or malformed (a negative money, plots that are not the 16 plots, an
\* inventory that lacks a crop key), and the stored value otherwise.
C11_DefensiveLoad ==
  (lastOp = Op("load", -1, "") /\ storage # << >> /\ storage[1].json = "object")
    => LET parsed == storage[1]
           m == member(parsed, "money")
           p == member(parsed, "plots")
           i == member(parsed, "inventory")
           r == member(parsed, "playerRPG")
       IN /\ gameState.money
               = IF m = << >> \/ ~WellFormedMoney(m[1])
                   THEN INITIAL_MONEY ELSE m[1]
          /\ gameState.plots
               = IF p = << >> \/ ~WellFormedPlots(p[1])
                   THEN createInitialPlots ELSE p[1]
          /\ gameState.inventory
               = IF i = << >> \/ ~WellFormedInventory(i[1])
                   THEN createInitialInventory ELSE i[1]
          /\ gameState.playerRPG = IF r = << >> THEN InitialRPG ELSE r[1]

\* C12: after a load in which the read throws, or the item is not JSON, or
\* is JSON that is not an object (null, a number, an array), the component
\* holds the initial state: money 100, 16 untilled empty plots, 2 carrot
\* seeds and every other count 0, the FARM view, level 1, experience 0.
C12_FallbackToInitial ==
  (/\ lastOp.op = "load"
   /\ \/ lastOp.kind = "throws"
      \/ /\ storage # << >>
         /\ storage[1].json \in {"invalid", "null", "number", "array"})
    => gameState =
         [money |-> 100,
          plots |-> [n \in 0..15 |->
                       [id |-> n, isLocked |-> FALSE, crop |-> Null,
                        plantedAt |-> NullAt, isWithered |-> FALSE,
                        isPlowed |-> FALSE]],
          inventory |->
            [seeds    |-> [CARROT |-> 2, TOMATO |-> 0, PUMPKIN |-> 0],
             crops    |-> [CARROT |-> 0, TOMATO |-> 0, PUMPKIN |-> 0],
             products |-> [PUMPKIN_PIE |-> 0, TOMATO_SOUP |-> 0]],
          view |-> "FARM",
          playerRPG |-> [luong |-> 5, levelMain |-> 1, expMain |-> 0,
                         chests |-> << >>]]

\* C12 witness: the page was loaded, without a failure of the read, over an
\* item that is not JSON
C12_Witness ==
  /\ lastOp = Op("load", -1, "")
  /\ storage # << >>
  /\ storage[1].json = "invalid"
  /\ gameState.money = INITIAL_MONEY

\* the shop radius, as the specification states it
InShopRadius(p) ==
  (p.x - 550) * (p.x - 550) + (p.y - 125) * (p.y - 125) < 150 * 150

\* the inputs that are presses of E or SPACE
KeyOps == {"enterStore", "harvest", "till", "plant", "key"}

\* the label shown in the current state
Label == interactionLabel(gameState, selectedSeed, player, now)

\* C13: while the player stands within the shop radius in the FARM view the
\* label is the shop's, and a press of E or SPACE tills, plants and harvests
\* nothing: plots, inventory and progression stay as they were and E opens
\* the store.
C13_ShopPrecedence ==
  [][(gameState.view = "FARM" /\ InShopRadius(player))
     => /\ Label = "ENTER_STORE"
        /\ lastOp'.op \in KeyOps
             => /\ lastOp'.op \in {"enterStore", "key"}
                /\ gameState'.plots = gameState.plots
                /\ gameState'.inventory = gameState.inventory
                /\ gameState'.playerRPG = gameState.playerRPG
                /\ gameState'.money = gameState.money
                /\ lastOp'.op = "enterStore" => gameState'.view = "STORE"]_vars

\* C13 witness: SPACE was pressed within the shop radius, with a tilled plot
\* on the farm, and the player is still on the farm
C13_Witness ==
  /\ lastOp.op = "key"
  /\ gameState.view = "FARM"
  /\ InShopRadius(player)
  /\ \E i \in DOMAIN gameState.plots : gameState.plots[i].isPlowed

\* C14: in the FARM view, a key press does what the label of the state it
\* is pressed in advertises for that key: E enters the shop under the shop
\* label, harvests under the harvest label and plants under the label that
\* offers planting; SPACE flips the tilling under the two tilling labels;
\* a key the label offers nothing for changes nothing.
C14_LabelPredictsAction ==
  [][(gameState.view = "FARM" /\ lastOp'.op \in KeyOps)
     => LET l == Label
            o == lastOp'.op
        IN /\ o = "enterStore"
                => /\ l = "ENTER_STORE"
                   /\ gameState' = [gameState EXCEPT !.view = "STORE"]
           /\ o = "harvest"
                => IF l = "HARVEST"
                     THEN /\ PlotAfter.crop = Null
                          /\ gameState'.inventory.crops[lastOp'.kind]
                               = gameState.inventory.crops[lastOp'.kind] + 1
                     ELSE gameState' = gameState
           /\ o = "plant"
                => IF l = "UNTILL_OR_PLANT"
                     THEN /\ PlotAfter.crop = lastOp'.kind
                          /\ gameState'.inventory.seeds[lastOp'.kind]
                               = gameState.inventory.seeds[lastOp'.kind] - 1
                     ELSE gameState' = gameState
           /\ o = "till"
                => IF l \in {"TILL", "UNTILL_OR_PLANT"}
                     THEN PlotAfter.isPlowed = ~PlotBefore.isPlowed
                     ELSE gameState' = gameState
           /\ o = "key" => gameState' = gameState]_vars

\* C15: at most one save timer is pending and it holds the current
\* aggregate; a step that changes the aggregate leaves exactly the timer of
\* the new aggregate pending; a timer that fires writes the current
\* aggregate, or nothing when the write fails, and leaves no timer pending.
C15_Debounce ==
  [][/\ Cardinality(saveTimer) <= 1
     /\ saveTimer \subseteq {gameState}
     /\ gameState' # gameState => saveTimer' = {gameState'}
     /\ lastOp'.op = "save"
          => /\ saveTimer' = {}
             /\ storage' \in {storage, <<stringify(gameState)>>}]_vars

\* C15 witness: after a purchase and further changes the timer fired and
\* stored the current aggregate, and no timer is pending
C15_Witness ==
  /\ lastOp.op = "save"
  /\ saveTimer = {}
  /\ storage = <<stringify(gameState)>>
  /\ gameState.money < INITIAL_MONEY
  /\ gameState.view = "FARM"

\* the stages of the scenario: the initial aggregate (Stage0), after the
\* purchase of a carrot seed (Stage1), after the tilling of plot 0 (Stage2)
\* and after the planting of a carrot in plot 0 at time t (Stage3)
Stage0 == [InitialGameState EXCEPT !.view = gameState.view]
Stage1 ==
  [Stage0 EXCEPT !.money = 90,
                 !.inventory = [@ EXCEPT !.seeds = [@ EXCEPT !.CARROT = 3]]]
Stage2 ==
  [Stage1 EXCEPT !.plots = [@ EXCEPT ![0] = [@ EXCEPT !.isPlowed = TRUE]]]
Stage3(t) ==
  [Stage2 EXCEPT
     !.plots = [@ EXCEPT ![0] = [@ EXCEPT !.crop = "CARROT",
                                          !.plantedAt = <<t>>]],
     !.inventory = [@ EXCEPT !.seeds = [@ EXCEPT !.CARROT = 2]],
     !.playerRPG = [@ EXCEPT !.expMain = 5]]

\* C16: from the initial aggregate buySeed(CARROT) gives money 90 and 3
\* carrot seeds; then till(0) tills plot 0; then plant(0, CARROT) gives 2
\* carrot seeds and plot 0 holding CARROT planted now; a harvest(0) at that
\* same time changes nothing; a harvest(0) 5000 ms or more later gives 1
\* carrot crop, plot 0 empty and untilled and 100 more experience.
C16_Scenario ==
  [][/\ (gameState = Stage0 /\ lastOp' = Op("buySeed", -1, "CARROT"))
          => /\ gameState'.money = 90
             /\ gameState'.inventory.seeds["CARROT"] = 3
             /\ gameState' = [Stage1 EXCEPT !.view = gameState'.view]
     /\ (gameState = Stage1 /\ lastOp' = Op("till", 0, ""))
          => gameState' = Stage2
     /\ (gameState = Stage2 /\ lastOp' = Op("plant", 0, "CARROT"))
          => /\ gameState'.inventory.seeds["CARROT"] = 2
             /\ gameState'.plots[0].crop = "CARROT"
             /\ gameState'.plots[0].plantedAt = <<now>>
             /\ gameState' = Stage3(now)
     /\ (gameState = Stage3(now) /\ lastOp' = Op("harvest", 0, "CARROT"))
          => gameState' = gameState
     /\ (/\ \E t \in {T0 + n * TickMs : n \in 0..MaxTicks} :
               gameState = Stage3(t) /\ now - t >= 5000
         /\ lastOp' = Op("harvest", 0, "CARROT"))
          => /\ gameState'.inventory.crops["CARROT"] = 1
             /\ gameState'.plots[0] = createInitialPlots[0]
             /\ gameState'.playerRPG.expMain
                  = gameState.playerRPG.expMain + 100
             /\ gameState'.playerRPG.levelMain = gameState.playerRPG.levelMain
             /\ gameState'.money = 90
             /\ gameState'.inventory.seeds["CARROT"] = 2]_vars

\* C16 witness: the end of the scenario, and nothing else done
C16_Witness ==
  /\ lastOp = Op("harvest", 0, "CARROT")
  /\ gameState.money = 90
  /\ gameState.inventory.seeds = [CARROT |-> 2, TOMATO |-> 0, PUMPKIN |-> 0]
  /\ gameState.inventory.crops = [CARROT |-> 1, TOMATO |-> 0, PUMPKIN |-> 0]
  /\ gameState.plots = createInitialPlots
  /\ gameState.playerRPG.expMain = 105

\* the lifecycle state of a plot at time t
Phase(plot, t) ==
  IF plot.crop = Null
    THEN IF plot.isPlowed THEN "EMPTY_TILLED" ELSE "EMPTY_UNTILLED"
    ELSE IF /\ plot.plantedAt # NullAt
            /\ t - plot.plantedAt[1] >= CROPS[plot.crop].growthTimeMs
           THEN "READY" ELSE "GROWING"

\* C17: in every step every plot either stays as it is, in the same
\* lifecycle state, or makes one of the moves: till (EMPTY_UNTILLED to
\* EMPTY_TILLED or back), plant (EMPTY_TILLED to GROWING), the clock
\* (GROWING to READY) and harvest (READY to EMPTY_UNTILLED), each by the
\* input of that name on that plot.
C17_Lifecycle ==
  [][\A i \in DOMAIN gameState.plots :
       LET a == Phase(gameState.plots[i], now)
           b == Phase(gameState'.plots[i], now')
           on(o) == lastOp'.op = o /\ lastOp'.idx = i
       IN \/ a = b /\ gameState'.plots[i] = gameState.plots[i]
          \/ a = "EMPTY_UNTILLED" /\ b = "EMPTY_TILLED" /\ on("till")
          \/ a = "EMPTY_TILLED" /\ b = "EMPTY_UNTILLED" /\ on("till")
          \/ a = "EMPTY_TILLED" /\ b = "GROWING" /\ on("plant")
          \/ /\ a = "GROWING" /\ b = "READY" /\ lastOp'.op = "tick"
             /\ gameState'.plots[i] = gameState.plots[i]
          \/ a = "READY" /\ b = "EMPTY_UNTILLED" /\ on("harvest")]_vars

\* C17 witness: a plot went round the lifecycle while another one is READY
C17_Witness ==
  /\ lastOp.op = "harvest"
  /\ Phase(gameState.plots[lastOp.idx], now) = "EMPTY_UNTILLED"
  /\ gameState.inventory.crops[lastOp.kind] >= 1
  /\ \E j \in DOMAIN gameState.plots : Phase(gameState.plots[j], now) = "READY"

\* C18: for every plot that holds a crop and every clock reading, the
\* progress the renderer computes is clamp((now - plantedAt) / growth, 0, 1),
\* also when now is before plantedAt, so it lies within [0, 1]; and the
\* harvest guard, the label and the renderer take the plot for ripe exactly
\* when that progress is at least 1.
C18_ProgressClamped ==
  \A i \in DOMAIN gameState.plots :
     LET plot == gameState.plots[i]
     IN drawsCrop(plot)
          => LET e == now - plot.plantedAt[1]
                 d == CROPS[plot.crop].growthTimeMs
                 clamped == IF e < 0 THEN 0 ELSE IF e > d THEN d ELSE e
                 pr == progress(plot, now)
             IN /\ pr.den = d
                /\ pr.num = clamped
                /\ 0 <= pr.num /\ pr.num <= pr.den
                /\ handleHarvestGuard(gameState, i, now) <=> (clamped >= d)
                /\ isReady(plot, now) <=> (clamped >= d)
                /\ drawsRipe(plot, now) <=> (clamped >= d)

\* the state an input leaves when its handler reads the committed state
FreshBuy(gs, type) ==
  IF buySeedGuard(gs, type) THEN buySeedUpdater(gs, type) ELSE gs
FreshKey(gs, keyType) ==
  checkInteractions(gs, gs, selectedSeed, player, TRUE, keyType, now).state

\* C19: of two inputs issued against the same rendered state, the second
\* is applied only if its precondition holds in the state the first leaves,
\* and on top of that state: the result is the state the first leaves, or
\* the state the second gives when it checks and acts on that state.
C19_CheckAndActOnSameState ==
  [][/\ lastOp'.op = "buyTwice"
          => LET first == FreshBuy(gameState, lastOp'.kind)
             IN gameState' \in {first, FreshBuy(first, lastOp'.kind)}
     /\ lastOp'.op = "keysTwice"
          => LET first == FreshKey(gameState, lastOp'.kind)
             IN gameState' \in {first, FreshKey(first, "E")}]_vars

\* C20: the updaters of plant, harvest and cook leave the aggregate they
\* are given as it was, and give, invoked a second time on that same
\* aggregate, the state they gave the first time.
C20_UpdatersPure ==
  /\ \A i \in DOMAIN gameState.plots :
        handlePlantGuard(gameState, selectedSeed, i)
          => LET plot == gameState.plots[i]
                 once == plantUpdater(gameState, plot, i, selectedSeed, now)
                 left == plantUpdaterPrev(gameState, selectedSeed)
             IN /\ left = gameState
                /\ plantUpdater(left, plot, i, selectedSeed, now) = once
  /\ \A i \in DOMAIN gameState.plots :
        handleHarvestGuard(gameState, i, now)
          => LET plot == gameState.plots[i]
                 once == harvestUpdater(gameState, plot, i)
                 left == harvestUpdaterPrev(gameState, plot)
             IN /\ left = gameState
                /\ harvestUpdater(left, plot, i) = once
  /\ \A q \in ProductType :
        canCook(gameState, q)
          => LET once == cookUpdater(gameState, q)
                 left == cookUpdaterPrev(gameState, q)
             IN /\ left = gameState
                /\ cookUpdater(left, q) = once

\* the units of kind k in the game: seeds held, plots holding k and crops
\* held
Units(gs, k) ==
  gs.inventory.seeds[k] + gs.inventory.crops[k]
    + Cardinality({i \in DOMAIN gs.plots : gs.plots[i].crop = k})

\* the units of k a recipe takes
RECURSIVE Takes(_, _, _)
Takes(ingredients, k, i) ==
  IF i > Len(ingredients) THEN 0
  ELSE (IF ingredients[i].type = k THEN ingredients[i].count ELSE 0)
         + Takes(ingredients, k, i + 1)

\* C21: for every kind k, the seeds of k held plus the plots holding k plus
\* the crops of k held change in a step by exactly +1 when a seed of k is
\* bought, -1 when a crop of k is sold, minus the recipe's count when a
\* product is cooked, and not at all otherwise (planting moves a seed into
\* a plot and harvesting moves it into the crops); so the sum, with the
\* units sold and cooked, stays the initial seeds plus the seeds bought.
C21_Conservation ==
  [][\A k \in CropType :
       LET applied == gameState' # gameState
           o == lastOp'.op
       IN Units(gameState', k) - Units(gameState, k)
            = IF applied /\ o = "buySeed" /\ lastOp'.kind = k THEN 1
              ELSE IF applied /\ o = "sellCrop" /\ lastOp'.kind = k THEN -1
              ELSE IF applied /\ o = "cook"
                THEN 0 - Takes(PRODUCTS[lastOp'.kind].ingredients, k, 1)
              ELSE 0]_vars

\* C21 witness: a carrot was sold (the balance ends in 8) while a carrot
\* seed is held, a plot holds a carrot and another carrot was harvested
C21_Witness ==
  /\ lastOp = Op("sellCrop", -1, "CARROT")
  /\ gameState.money % 10 = 8
  /\ gameState.inventory.seeds["CARROT"] >= 1
  /\ gameState.inventory.crops["CARROT"] >= 1
  /\ \E i \in DOMAIN gameState.plots : gameState.plots[i].crop = "CARROT"

\* C22: the view is FARM or STORE in every state and FARM after a load; a
\* press of E or SPACE in another view than FARM changes nothing; within a
\* session the view changes only from FARM to STORE by E within the shop
\* radius and from STORE to FARM by the back button.
C22_ViewMode ==
  [][/\ gameState.view \in {"FARM", "STORE"}
     /\ gameState'.view \in {"FARM", "STORE"}
     /\ lastOp'.op = "load" => gameState'.view = "FARM"
     /\ (gameState.view # "FARM" /\ lastOp'.op \in KeyOps)
          => gameState' = gameState
     /\ (gameState'.view # gameState.view /\ lastOp'.op # "load")
          => \/ /\ gameState.view = "FARM" /\ gameState'.view = "STORE"
                /\ lastOp'.op = "enterStore"
                /\ InShopRadius(player)
             \/ /\ gameState.view = "STORE" /\ gameState'.view = "FARM"
                /\ lastOp'.op = "back"]_vars

\* C22 witness: the page was loaded over a snapshot saved in the STORE view
\* and then the store was entered again
C22_Witness ==
  /\ lastOp.op = "enterStore"
  /\ gameState.view = "STORE"
  /\ storage # << >>
  /\ member(storage[1], "view") = <<"STORE">>
  /\ saveTimer = {gameState}

====
